---- MODULE Spec2Model ----
(***************************************************************************)
(* Bank queue simulator (src/coc-project-bank-queue.c): main reads lambda  *)
(* and num_tellers, run_simulation drives SIMULATION_MINUTES ticks of      *)
(* (1) teller countdown, (2) Poisson arrivals into a linked-list queue,    *)
(* (3) assignment of free tellers, then sorts the recorded wait times and  *)
(* reports mean, median, mode, standard deviation and maximum.             *)
(***************************************************************************)
EXTENDS Integers, Sequences, FiniteSets, TLC

(***************************************************************************)
(* Program constants.  SIMULATION_MINUTES (480 in the source) and          *)
(* INITIAL_STORAGE_CAPACITY (100 in the source) are scaled down so that    *)
(* the whole run, and a full ledger, are explored exhaustively.            *)
(***************************************************************************)
SIMULATION_MINUTES == 4
MIN_SERVICE_TIME == 2
MAX_SERVICE_TIME == 3
INITIAL_STORAGE_CAPACITY == 2

(***************************************************************************)
(* Bounds of the model.                                                    *)
(***************************************************************************)
\* largest num_tellers typed by the operator
MaxTellers == 2
\* largest value get_poisson_random returns in one tick
MaxArrivals == 2
\* number of Customer nodes the heap can hold; malloc fails when it is full
MaxNodes == 3
\* rand() returns 0 .. MaxRand
MaxRand == 1
\* QueueSpec: number of enqueue calls, and the values enqueued (0 .. MaxValue)
MaxEnqueues == 4
MaxValue == 2
\* StatsSpec: length of the data array and largest wait time in it
MaxStatLen == 4
MaxStatValue == 3
\* LedgerSpec: number of add_wait_time calls (wait times are 0 .. MaxValue)
MaxRecords == 6

NULL == 0

(***************************************************************************)
(* double: a number, or NaN (scanf's %lf accepts "nan").  Every ordered    *)
(* comparison with NaN is false.                                           *)
(***************************************************************************)
Double(x) == [nan |-> FALSE, v |-> x]
NaN == [nan |-> TRUE, v |-> 0]
DoubleLeq(a, b) == ~a.nan /\ ~b.nan /\ a.v <= b.v
DoubleGt(a, b) == ~a.nan /\ ~b.nan /\ a.v > b.v

(***************************************************************************)
(* Queue: the Queue struct together with the Customer nodes it links.      *)
(* heap maps each allocated address to its node; front and rear are        *)
(* addresses or NULL.                                                      *)
(***************************************************************************)
Addresses == 1..MaxNodes

malloc(heap) ==
    IF Addresses \ DOMAIN heap = {} THEN NULL
    ELSE CHOOSE a \in Addresses \ DOMAIN heap :
             \A b \in Addresses \ DOMAIN heap : a <= b

free(heap, p) == [a \in DOMAIN heap \ {p} |-> heap[a]]

create_queue ==
    [front |-> NULL, rear |-> NULL, customer_count |-> 0, heap |-> <<>>]

is_empty(q) == q.front = NULL

\* a faulty enqueue: the new customer is linked in at the front
enqueue_at_front(q, arrival_minute) ==
    LET new_customer == malloc(q.heap)
        node == [arrival_minute |-> arrival_minute, next |-> q.front]
    IN  [front |-> new_customer,
         rear |-> IF is_empty(q) THEN new_customer ELSE q.rear,
         customer_count |-> q.customer_count + 1,
         heap |-> [a \in DOMAIN q.heap \cup {new_customer} |->
                      IF a = new_customer THEN node ELSE q.heap[a]]]

\* enqueue when malloc returned a node (the failing branch exits the process)
enqueue(q, arrival_minute) ==
    LET new_customer == malloc(q.heap)
        node == [arrival_minute |-> arrival_minute, next |-> NULL]
        heap1 == [a \in DOMAIN q.heap \cup {new_customer} |->
                     IF a = new_customer THEN node ELSE q.heap[a]]
    IN  IF is_empty(q)
        THEN [front |-> new_customer, rear |-> new_customer,
              customer_count |-> q.customer_count + 1, heap |-> heap1]
        ELSE [front |-> q.front, rear |-> new_customer,
              customer_count |-> q.customer_count + 1,
              heap |-> [heap1 EXCEPT ![q.rear].next = new_customer]]

\* a faulty dequeue: rear is left pointing at the customer handed out last
dequeue_keeps_rear(q) ==
    IF is_empty(q)
    THEN [ret |-> NULL, q |-> q]
    ELSE LET served_customer == q.front
             front1 == q.heap[q.front].next
         IN  [ret |-> served_customer,
              q |-> [front |-> front1,
                     rear |-> q.rear,
                     customer_count |-> q.customer_count - 1,
                     heap |-> q.heap]]

\* a faulty dequeue: customer_count is decremented on an empty queue too
dequeue_counts_down_on_empty(q) ==
    IF is_empty(q)
    THEN [ret |-> NULL, q |-> [q EXCEPT !.customer_count = q.customer_count - 1]]
    ELSE LET served_customer == q.front
             front1 == q.heap[q.front].next
         IN  [ret |-> served_customer,
              q |-> [front |-> front1,
                     rear |-> IF front1 = NULL THEN NULL ELSE q.rear,
                     customer_count |-> q.customer_count - 1,
                     heap |-> q.heap]]

\* dequeue: the returned pointer and the queue afterwards
dequeue(q) ==
    IF is_empty(q)
    THEN [ret |-> NULL, q |-> q]
    ELSE LET served_customer == q.front
             front1 == q.heap[q.front].next
         IN  [ret |-> served_customer,
              q |-> [front |-> front1,
                     rear |-> IF front1 = NULL THEN NULL ELSE q.rear,
                     customer_count |-> q.customer_count - 1,
                     heap |-> q.heap]]

\* the arrival minutes reachable from front, front first
RECURSIVE ListFrom(_, _, _)
ListFrom(heap, p, fuel) ==
    IF p = NULL \/ fuel = 0 \/ p \notin DOMAIN heap THEN <<>>
    ELSE <<heap[p].arrival_minute>> \o ListFrom(heap, heap[p].next, fuel - 1)

QueueContents(q) == ListFrom(q.heap, q.front, MaxNodes + 1)

(***************************************************************************)
(* WaitTimeStorage: wait_times holds the entries written so far.           *)
(***************************************************************************)
NoStorage == [wait_times |-> <<>>, count |-> 0, capacity |-> 0]

create_storage ==
    [wait_times |-> <<>>, count |-> 0, capacity |-> INITIAL_STORAGE_CAPACITY]

\* a faulty add_wait_time: a failed resize still counts the value
add_wait_time_counts_dropped(storage, wait_time, realloc_ok) ==
    IF storage.count = storage.capacity /\ ~realloc_ok
    THEN [storage EXCEPT !.count = storage.count + 1]
    ELSE [wait_times |-> SubSeq(storage.wait_times, 1, storage.count)
                            \o <<wait_time>>,
          count |-> storage.count + 1,
          capacity |-> IF storage.count = storage.capacity
                       THEN storage.capacity * 2 ELSE storage.capacity]

\* a faulty add_wait_time: a full array grows by the initial capacity
add_wait_time_grows_by_initial(storage, wait_time, realloc_ok) ==
    IF storage.count = storage.capacity /\ ~realloc_ok
    THEN storage
    ELSE [wait_times |-> SubSeq(storage.wait_times, 1, storage.count)
                            \o <<wait_time>>,
          count |-> storage.count + 1,
          capacity |-> IF storage.count = storage.capacity
                       THEN storage.capacity + INITIAL_STORAGE_CAPACITY
                       ELSE storage.capacity]

\* realloc_ok: whether realloc, if it is called, returns a block
add_wait_time(storage, wait_time, realloc_ok) ==
    IF storage.count = storage.capacity /\ ~realloc_ok
    THEN storage
    ELSE [wait_times |-> SubSeq(storage.wait_times, 1, storage.count)
                            \o <<wait_time>>,
          count |-> storage.count + 1,
          capacity |-> IF storage.count = storage.capacity
                       THEN storage.capacity * 2 ELSE storage.capacity]

(***************************************************************************)
(* Random process generators.                                              *)
(***************************************************************************)
RandValues == 0..MaxRand

\* a faulty get_service_time: MIN_SERVICE_TIME is not added
get_service_time_from_zero(r) == r % (MAX_SERVICE_TIME - MIN_SERVICE_TIME + 1)

\* get_service_time, r being the value rand() returned
get_service_time(r) ==
    (r % (MAX_SERVICE_TIME - MIN_SERVICE_TIME + 1)) + MIN_SERVICE_TIME

\* The loop test p > L of get_poisson_random after a draw.  L = exp(-lambda)
\* lies strictly between 0 and 1 for a finite lambda > 0 and p starts at 1,
\* so the draw u = 1 keeps p > L and the draw u = 0 ends the loop: the test
\* can go either way (u_keeps_p tells which).  With lambda NaN, L is NaN and
\* the comparison is false whatever was drawn.
PoissonContinues(lam, u_keeps_p) == ~lam.nan /\ u_keeps_p

(***************************************************************************)
(* Data analysis.  A double result is the exact rational num/den; the      *)
(* standard deviation is kept as the rational under the square root.       *)
(***************************************************************************)
Rational(num, den) == [num |-> num, den |-> den]
ZeroDouble == Rational(0, 1)

\* compare_int, and qsort of the first n entries of data
compare_int(a, b) == a - b

qsort(data, n) ==
    SortSeq(SubSeq(data, 1, n), LAMBDA a, b : compare_int(a, b) < 0)
        \o SubSeq(data, n + 1, Len(data))

RECURSIVE SumTo(_, _)
SumTo(data, i) == IF i = 0 THEN 0 ELSE SumTo(data, i - 1) + data[i]

get_mean(data, n) ==
    IF n = 0 THEN ZeroDouble ELSE Rational(SumTo(data, n), n)

\* a faulty get_median: for even n, the upper of the two central elements
get_median_upper_middle(sorted_data, n) ==
    IF n = 0 THEN ZeroDouble
    ELSE Rational(sorted_data[(n \div 2) + 1], 1)

\* C index j is sequence index j + 1
get_median(sorted_data, n) ==
    IF n = 0 THEN ZeroDouble
    ELSE IF n % 2 = 0
         THEN LET mid1 == sorted_data[(n \div 2 - 1) + 1]
                  mid2 == sorted_data[(n \div 2) + 1]
              IN  Rational(mid1 + mid2, 2)
         ELSE Rational(sorted_data[(n \div 2) + 1], 1)

\* first loop of get_mode: the largest entry, starting from max_val = 0
RECURSIVE MaxValTo(_, _)
MaxValTo(data, i) ==
    IF i = 0 THEN 0
    ELSE LET m == MaxValTo(data, i - 1)
         IN  IF data[i] > m THEN data[i] ELSE m

\* second loop: frequency[v] after frequency[data[i]]++ for the first n entries
Frequency(data, n, v) == Cardinality({i \in 1..n : data[i] = v})

\* a faulty scan: a later index with an equal frequency replaces the mode
RECURSIVE ModeScan_last_wins(_, _, _)
ModeScan_last_wins(data, n, i) ==
    IF i < 0 THEN [mode |-> 0, max_freq |-> 0]
    ELSE LET prev == ModeScan_last_wins(data, n, i - 1)
         IN  IF Frequency(data, n, i) >= prev.max_freq
             THEN [mode |-> i, max_freq |-> Frequency(data, n, i)]
             ELSE prev

\* third loop: scan i = 0 .. freq_array_size - 1, keeping the first index whose
\* frequency is strictly greater than max_freq
RECURSIVE ModeScan(_, _, _)
ModeScan(data, n, i) ==
    IF i < 0 THEN [mode |-> 0, max_freq |-> 0]
    ELSE LET prev == ModeScan(data, n, i - 1)
         IN  IF Frequency(data, n, i) > prev.max_freq
             THEN [mode |-> i, max_freq |-> Frequency(data, n, i)]
             ELSE prev

\* calloc_ok: whether calloc returned the frequency array
get_mode(data, n, calloc_ok) ==
    IF n = 0 THEN 0
    ELSE LET max_val == MaxValTo(data, n)
             freq_array_size == IF max_val < 1 THEN 1 ELSE max_val + 1
         IN  IF ~calloc_ok THEN -1
             ELSE ModeScan(data, n, freq_array_size - 1).mode

\* sum of (data[i] - mean)^2 = sum of (data[i]*den - num)^2 / den^2
RECURSIVE SumSqDiffTo(_, _, _)
SumSqDiffTo(data, i, mean) ==
    IF i = 0 THEN 0
    ELSE SumSqDiffTo(data, i - 1, mean)
             + (data[i] * mean.den - mean.num) * (data[i] * mean.den - mean.num)

\* the result is sqrt(num/den)
get_std_dev(data, n, mean) ==
    IF n = 0 THEN ZeroDouble
    ELSE Rational(SumSqDiffTo(data, n, mean), mean.den * mean.den * n)

get_max_wait(sorted_data, n) ==
    IF n = 0 THEN 0 ELSE sorted_data[(n - 1) + 1]

(***************************************************************************)
(* State.                                                                  *)
(*   stdin          what the two scanf calls of main find                  *)
(*   pc             "main", "run_simulation", then per tick "tellers",     *)
(*                  "poisson", "enqueue", "assign", then "report",         *)
(*                  "cleanup"; terminal: "rejected" (main returned 1),     *)
(*                  "exit_failure" (exit(EXIT_FAILURE)), "done" (main      *)
(*                  returned 0); "queue", "ledger" and "stats" drive the   *)
(*                  queue, the storage and the analysis functions on their *)
(*                  own                                                    *)
(*   lambda .. report   the locals of main and run_simulation, and the     *)
(*                  printed report                                         *)
(*   assign_t       the loop variable t of step 3 (tellers are 1 .. n)     *)
(*   served_total   history: customers dequeued and given a teller         *)
(*   dropped        history: add_wait_time calls that stored nothing       *)
(*   freed          history: tellers freed by step 1 of the current tick   *)
(*   last_assign    history: the assignments of the latest step 3          *)
(*   assign_start   history: the tellers and the queued arrival minutes    *)
(*                  when step 3 of the current tick started                *)
(*   finish_at      history: for each busy teller, the tick in which its   *)
(*                  customer's service ends (tick of assignment + sampled  *)
(*                  service time), written when the customer is assigned   *)
(*   last_record    history: of the customer whose wait time was stored    *)
(*                  last, the tick of assignment, the arrival tick and the *)
(*                  tick in which the service ends; and the latest of each *)
(*                  over all customers stored so far                       *)
(*   enq_log, deq_log   history: values enqueued / dequeued, in call order *)
(*   last_op        history: the latest direct call of a queue or analysis *)
(*                  function, with its arguments and result                *)
(***************************************************************************)
VARIABLES stdin, pc, exit_status, lambda, num_tellers, bank_queue, storage,
          tellers, total_arrivals, current_minute, k, new_arrivals, report,
          served_total, dropped, freed, last_assign, enq_log, deq_log, last_op,
          assign_t, assign_start, finish_at, last_record

vars == <<stdin, pc, exit_status, lambda, num_tellers, bank_queue, storage,
          tellers, total_arrivals, current_minute, k, new_arrivals, report,
          served_total, dropped, freed, last_assign, enq_log, deq_log, last_op, assign_t,
                   assign_start, finish_at, last_record>>

NoQueue == create_queue
NoOp == [op |-> "none"]
NoAssignStart == [tellers |-> <<>>, queue |-> <<>>]
NoFinish == -1
NoRecord ==
    [minute |-> -1, arrival_minute |-> -1, finish |-> -1,
     latest_minute |-> -1, latest_arrival |-> -1, latest_finish |-> -1]

Max(a, b) == IF a >= b THEN a ELSE b
NoReport ==
    [printed |-> FALSE, arrived |-> 0, served |-> 0, left |-> 0,
     has_stats |-> FALSE, mean |-> ZeroDouble, median |-> ZeroDouble,
     mode |-> 0, std_dev |-> ZeroDouble, max_wait |-> 0]

\* what scanf("%lf") / scanf("%d") can deliver: no match, or a value
LambdaInputs ==
    {[matched |-> FALSE, value |-> Double(0)]}
        \cup {[matched |-> TRUE, value |-> d] :
                 d \in {Double(-1), Double(0), Double(1), NaN}}
TellerInputs ==
    {[matched |-> FALSE, value |-> 0]}
        \cup {[matched |-> TRUE, value |-> n] : n \in -1..MaxTellers}

Locals0 ==
    /\ exit_status = -1
    /\ lambda = Double(0)
    /\ num_tellers = 0
    /\ bank_queue = NoQueue
    /\ storage = NoStorage
    /\ tellers = <<>>
    /\ total_arrivals = 0
    /\ current_minute = 0
    /\ k = 0
    /\ new_arrivals = 0
    /\ report = NoReport
    /\ served_total = 0
    /\ dropped = 0
    /\ freed = {}
    /\ last_assign = <<>>
    /\ enq_log = <<>>
    /\ deq_log = <<>>
    /\ last_op = NoOp
    /\ assign_t = 1
    /\ assign_start = NoAssignStart
    /\ finish_at = <<>>
    /\ last_record = NoRecord

Init ==
    /\ stdin \in [lambda : LambdaInputs, num_tellers : TellerInputs]
    /\ pc = "main"
    /\ Locals0

(***************************************************************************)
(* main: the two reads and their validation.                               *)
(***************************************************************************)
LambdaRejected(item) == ~item.matched \/ DoubleLeq(item.value, Double(0))
TellersRejected(item) == ~item.matched \/ item.value <= 0

Main ==
    /\ pc = "main"
    /\ IF LambdaRejected(stdin.lambda)
       THEN /\ pc' = "rejected"
            /\ exit_status' = 1
            /\ UNCHANGED <<lambda, num_tellers>>
       ELSE IF TellersRejected(stdin.num_tellers)
       THEN /\ pc' = "rejected"
            /\ exit_status' = 1
            /\ lambda' = stdin.lambda.value
            /\ UNCHANGED num_tellers
       ELSE /\ pc' = "run_simulation"
            /\ lambda' = stdin.lambda.value
            /\ num_tellers' = stdin.num_tellers.value
            /\ UNCHANGED exit_status
    /\ UNCHANGED <<stdin, bank_queue, storage, tellers, total_arrivals,
                   current_minute, k, new_arrivals, report, served_total,
                   dropped, freed, last_assign, enq_log, deq_log, last_op, assign_t,
                   assign_start, finish_at, last_record>>

(***************************************************************************)
(* run_simulation, part 1: create the queue, the storage and the tellers.  *)
(* Any of the four allocations may fail, which exits the process.          *)
(***************************************************************************)
\* a faulty loop test: one tick too many
LoopContinues_inclusive(minute) == minute <= SIMULATION_MINUTES

\* the test of the for loop over current_minute
LoopContinues(minute) == minute < SIMULATION_MINUTES

FreeTeller == [is_busy |-> 0, remaining_service_time |-> 0]

RunSimulationInit ==
    /\ pc = "run_simulation"
    /\ \E alloc_ok \in BOOLEAN :
          IF alloc_ok
          THEN /\ bank_queue' = create_queue
               /\ storage' = create_storage
               /\ tellers' = [t \in 1..num_tellers |-> FreeTeller]
               /\ finish_at' = [t \in 1..num_tellers |-> NoFinish]
               /\ total_arrivals' = 0
               /\ current_minute' = 0
               /\ pc' = IF LoopContinues(0) THEN "tellers" ELSE "report"
               /\ UNCHANGED exit_status
          ELSE /\ pc' = "exit_failure"
               /\ exit_status' = 1
               /\ UNCHANGED <<bank_queue, storage, tellers, total_arrivals,
                              current_minute, finish_at>>
    /\ UNCHANGED <<stdin, lambda, num_tellers, k, new_arrivals, report,
                   served_total, dropped, freed, last_assign, enq_log, deq_log,
                   last_op, assign_t, assign_start, last_record>>

(***************************************************************************)
(* Step 1 of a tick: decrement the busy tellers, free those reaching 0.    *)
(***************************************************************************)
\* a faulty countdown: a teller reaching 0 is left marked busy
tick_teller_stays_busy(teller) ==
    IF teller.is_busy = 1
    THEN [is_busy |-> 1,
          remaining_service_time |-> teller.remaining_service_time - 1]
    ELSE teller

\* a faulty countdown: a teller is freed one minute early, with a minute left
tick_teller_frees_early(teller) ==
    IF teller.is_busy = 1
    THEN LET r == teller.remaining_service_time - 1
         IN  [is_busy |-> IF r <= 1 THEN 0 ELSE 1, remaining_service_time |-> r]
    ELSE teller

tick_teller(teller) ==
    IF teller.is_busy = 1
    THEN LET r == teller.remaining_service_time - 1
         IN  [is_busy |-> IF r = 0 THEN 0 ELSE 1, remaining_service_time |-> r]
    ELSE teller

TellerStep ==
    /\ pc = "tellers"
    /\ tellers' = [t \in 1..num_tellers |-> tick_teller(tellers[t])]
    /\ freed' = {t \in 1..num_tellers :
                    tellers[t].is_busy = 1
                        /\ tellers'[t].remaining_service_time = 0}
    /\ last_assign' = <<>>
    /\ assign_start' = NoAssignStart
    /\ finish_at' = [t \in 1..num_tellers |->
                        IF t \in freed' THEN NoFinish ELSE finish_at[t]]
    /\ k' = 0
    /\ pc' = "poisson"
    /\ UNCHANGED <<stdin, exit_status, lambda, num_tellers, bank_queue, storage,
                   total_arrivals, current_minute, new_arrivals, report,
                   served_total, dropped, enq_log, deq_log, last_op, assign_t,
                   last_record>>

(***************************************************************************)
(* Step 2 of a tick: get_poisson_random, one action per pass of its        *)
(* do-while loop, then the enqueue loop.                                   *)
(***************************************************************************)
PoissonDraw ==
    /\ pc = "poisson"
    /\ \E u_keeps_p \in BOOLEAN :
          IF PoissonContinues(lambda, u_keeps_p)
          THEN /\ k + 1 <= MaxArrivals
               /\ k' = k + 1
               /\ UNCHANGED <<pc, new_arrivals, total_arrivals>>
          ELSE /\ k' = k + 1
               /\ new_arrivals' = k' - 1
               /\ total_arrivals' = total_arrivals + new_arrivals'
               /\ pc' = "enqueue"
    /\ UNCHANGED <<stdin, exit_status, lambda, num_tellers, bank_queue, storage,
                   tellers, current_minute, report, served_total, dropped,
                   freed, last_assign, enq_log, deq_log, last_op, assign_t,
                   assign_start, finish_at, last_record>>

\* a faulty loop: the customers are stamped with the minute after the current
RECURSIVE EnqueueTimes_next_minute(_, _, _)
EnqueueTimes_next_minute(q, arrival_minute, times) ==
    IF times = 0 THEN q
    ELSE enqueue(EnqueueTimes_next_minute(q, arrival_minute, times - 1),
                 arrival_minute + 1)

\* the loop of step 2: times calls of enqueue(bank_queue, current_minute)
RECURSIVE EnqueueTimes(_, _, _)
EnqueueTimes(q, arrival_minute, times) ==
    IF times = 0 THEN q
    ELSE enqueue(EnqueueTimes(q, arrival_minute, times - 1), arrival_minute)

\* malloc returns NULL when the heap is full, and may return NULL before
FreeNodes(q) == Cardinality(Addresses \ DOMAIN q.heap)

EnqueueArrivals ==
    /\ pc = "enqueue"
    /\ \E done \in 0..new_arrivals :
          /\ done <= FreeNodes(bank_queue)
          /\ bank_queue' = EnqueueTimes(bank_queue, current_minute, done)
          /\ IF done = new_arrivals
             THEN /\ pc' = "assign"
                  /\ assign_start' = [tellers |-> tellers,
                                      queue |-> QueueContents(bank_queue')]
                  /\ UNCHANGED exit_status
             ELSE /\ pc' = "exit_failure"
                  /\ exit_status' = 1
                  /\ UNCHANGED assign_start
    /\ UNCHANGED <<stdin, lambda, num_tellers, storage, tellers, total_arrivals,
                   current_minute, k, new_arrivals, report, served_total,
                   dropped, freed, last_assign, enq_log, deq_log, last_op, assign_t,
                   finish_at, last_record>>

(***************************************************************************)
(* Step 3 of a tick: for t = 0 .. num_tellers-1 (here 1 .. num_tellers), a *)
(* free teller takes the front customer.  AssignOne is the body of the if, *)
(* on the record st of what it reads and writes, r being the value rand()  *)
(* returns and realloc_ok the outcome of realloc.                          *)
(***************************************************************************)
\* a faulty wait time: the operands swapped
WaitTime_swapped(minute, arrival_minute) == arrival_minute - minute

\* the wait time of a customer served in current_minute
WaitTime(minute, arrival_minute) == minute - arrival_minute

AssignOne(st, t, minute, r, realloc_ok) ==
    LET d == dequeue(st.q)
        served_customer == d.ret
        wait_time == WaitTime(minute, d.q.heap[served_customer].arrival_minute)
        storage1 == add_wait_time(st.storage, wait_time, realloc_ok)
    IN  [q |-> [d.q EXCEPT !.heap = free(d.q.heap, served_customer)],
         storage |-> storage1,
         tellers |-> [st.tellers EXCEPT
                         ![t] = [is_busy |-> 1,
                                 remaining_service_time |-> get_service_time(r)]],
         served |-> st.served + 1,
         dropped |-> st.dropped
                        + (IF st.storage.count = st.storage.capacity /\ ~realloc_ok
                           THEN 1 ELSE 0),
         log |-> Append(st.log,
                        [teller |-> t,
                         minute |-> minute,
                         arrival_minute |-> d.q.heap[served_customer].arrival_minute,
                         wait_time |-> wait_time,
                         service_time |-> get_service_time(r),
                         resize_failed |-> (st.storage.count = st.storage.capacity
                                               /\ ~realloc_ok),
                         before |-> st.storage,
                         after |-> storage1])]

\* a faulty test: the last waiting customer is never taken
CanAssign_needs_two(teller, q) == teller.is_busy = 0 /\ q.customer_count > 1

\* a faulty test: a busy teller takes a customer too
CanAssign_ignores_busy(teller, q) == ~is_empty(q)

\* the test of the if in step 3: this teller is free and someone is waiting
CanAssign(teller, q) == teller.is_busy = 0 /\ ~is_empty(q)

\* a faulty loop: the tellers are visited from the highest index down
TellerOfPass_descending(pass) == num_tellers + 1 - pass

\* the teller the pass-th pass of the loop of step 3 looks at: t = 0, 1, ...
\* in the source, 1, 2, ... here
TellerOfPass(pass) == pass

\* one pass of the loop of step 3, for teller assign_t; the last pass ends the
\* tick: current_minute++ and the test of the for loop
AssignStep ==
    /\ pc = "assign"
    /\ IF CanAssign(tellers[TellerOfPass(assign_t)], bank_queue)
       THEN \E r \in RandValues, realloc_ok \in BOOLEAN :
               \E out \in {AssignOne([q |-> bank_queue, storage |-> storage,
                                      tellers |-> tellers, served |-> served_total,
                                      dropped |-> dropped, log |-> last_assign],
                                     TellerOfPass(assign_t), current_minute, r,
                                     realloc_ok)} :
               \E entry \in {out.log[Len(out.log)]} :
                   /\ bank_queue' = out.q
                   /\ storage' = out.storage
                   /\ tellers' = out.tellers
                   /\ served_total' = out.served
                   /\ dropped' = out.dropped
                   /\ last_assign' = out.log
                   /\ finish_at' = [finish_at EXCEPT ![entry.teller] =
                                        entry.minute + entry.service_time]
                   /\ last_record' =
                         IF entry.resize_failed THEN last_record
                         ELSE [minute |-> entry.minute,
                               arrival_minute |-> entry.arrival_minute,
                               finish |-> entry.minute + entry.service_time,
                               latest_minute |->
                                   Max(entry.minute, last_record.latest_minute),
                               latest_arrival |->
                                   Max(entry.arrival_minute,
                                       last_record.latest_arrival),
                               latest_finish |->
                                   Max(entry.minute + entry.service_time,
                                       last_record.latest_finish)]
       ELSE UNCHANGED <<bank_queue, storage, tellers, served_total, dropped,
                        last_assign, finish_at, last_record>>
    /\ IF assign_t < num_tellers
       THEN /\ assign_t' = assign_t + 1
            /\ UNCHANGED <<pc, current_minute>>
       ELSE /\ assign_t' = 1
            /\ current_minute' = current_minute + 1
            /\ pc' = IF LoopContinues(current_minute') THEN "tellers" ELSE "report"
    /\ UNCHANGED <<stdin, exit_status, lambda, num_tellers, total_arrivals, k,
                   new_arrivals, report, freed, enq_log, deq_log, last_op,
                   assign_start>>

(***************************************************************************)
(* run_simulation, part 3: the summary, and the statistics when at least   *)
(* one wait time was stored.                                               *)
(***************************************************************************)
\* qsort, then the five calls; sorted and mean are bound as values of one-element
\* sets so that each is computed once
Analysis(data, n, calloc_ok) ==
    CHOOSE a \in {[sorted |-> sorted,
                   mean |-> mean,
                   median |-> get_median(sorted, n),
                   mode |-> get_mode(sorted, n, calloc_ok),
                   std_dev |-> get_std_dev(sorted, n, mean),
                   max_wait |-> get_max_wait(sorted, n)] :
                      sorted \in {qsort(data, n)},
                      mean \in {get_mean(qsort(data, n), n)}} : TRUE

\* a faulty branch test: a single stored wait time counts as none
NoStatistics_below_two(st) == st.count <= 1

\* the test that selects the "no customers were served" branch
NoStatistics(st) == st.count = 0

Report ==
    /\ pc = "report"
    /\ \E calloc_ok \in BOOLEAN :
          IF NoStatistics(storage)
          THEN /\ report' = [NoReport EXCEPT
                                !.printed = TRUE,
                                !.arrived = total_arrivals,
                                !.served = storage.count,
                                !.left = bank_queue.customer_count]
               /\ UNCHANGED storage
          ELSE \E a \in {Analysis(storage.wait_times, storage.count, calloc_ok)} :
                   /\ storage' = [storage EXCEPT !.wait_times = a.sorted]
                   /\ report' = [printed |-> TRUE,
                                 arrived |-> total_arrivals,
                                 served |-> storage.count,
                                 left |-> bank_queue.customer_count,
                                 has_stats |-> TRUE,
                                 mean |-> a.mean,
                                 median |-> a.median,
                                 mode |-> a.mode,
                                 std_dev |-> a.std_dev,
                                 max_wait |-> a.max_wait]
    /\ pc' = "cleanup"
    /\ UNCHANGED <<stdin, exit_status, lambda, num_tellers, bank_queue, tellers,
                   total_arrivals, current_minute, k, new_arrivals,
                   served_total, dropped, freed, last_assign, enq_log, deq_log, last_op, assign_t,
                   assign_start, finish_at, last_record>>

\* free(tellers), free_queue, free_storage, and main's return 0
Cleanup ==
    /\ pc = "cleanup"
    /\ tellers' = <<>>
    /\ bank_queue' = NoQueue
    /\ storage' = NoStorage
    /\ pc' = "done"
    /\ exit_status' = 0
    /\ UNCHANGED <<stdin, lambda, num_tellers, total_arrivals, current_minute,
                   k, new_arrivals, report, served_total, dropped, freed,
                   last_assign, enq_log, deq_log, last_op, assign_t,
                   assign_start, finish_at, last_record>>

Next ==
    \/ Main
    \/ RunSimulationInit
    \/ TellerStep
    \/ PoissonDraw
    \/ EnqueueArrivals
    \/ AssignStep
    \/ Report
    \/ Cleanup

Spec == Init /\ [][Next]_vars

\* every step of the program is eventually taken: the process is never suspended
FairSpec == Spec /\ WF_vars(Next)

(***************************************************************************)
(* QueueSpec: a queue driven by every interleaving of enqueue and dequeue  *)
(* calls, the caller freeing each customer it is handed, as run_simulation *)
(* does.                                                                   *)
(***************************************************************************)
QueueInit ==
    /\ stdin = [lambda |-> [matched |-> FALSE, value |-> Double(0)],
                num_tellers |-> [matched |-> FALSE, value |-> 0]]
    /\ pc = "queue"
    /\ Locals0

QEnqueue ==
    /\ pc = "queue"
    /\ Len(enq_log) < MaxEnqueues
    /\ FreeNodes(bank_queue) > 0
    /\ \E arrival_minute \in 0..MaxValue :
          /\ bank_queue' = enqueue(bank_queue, arrival_minute)
          /\ enq_log' = Append(enq_log, arrival_minute)
          /\ last_op' = [op |-> "enqueue", arg |-> arrival_minute, ret |-> NULL,
                         before |-> bank_queue, after |-> bank_queue']
    /\ UNCHANGED <<stdin, pc, exit_status, lambda, num_tellers, storage, tellers,
                   total_arrivals, current_minute, k, new_arrivals, report,
                   served_total, dropped, freed, last_assign, deq_log, assign_t,
                   assign_start, finish_at, last_record>>

QDequeue ==
    /\ pc = "queue"
    /\ LET d == dequeue(bank_queue)
       IN  /\ last_op' = [op |-> "dequeue", arg |-> 0, ret |-> d.ret,
                          before |-> bank_queue, after |-> d.q]
           /\ IF d.ret = NULL
              THEN /\ bank_queue' = d.q
                   /\ UNCHANGED deq_log
              ELSE /\ bank_queue' = [d.q EXCEPT !.heap = free(d.q.heap, d.ret)]
                   /\ deq_log' = Append(deq_log, d.q.heap[d.ret].arrival_minute)
    /\ UNCHANGED <<stdin, pc, exit_status, lambda, num_tellers, storage, tellers,
                   total_arrivals, current_minute, k, new_arrivals, report,
                   served_total, dropped, freed, last_assign, enq_log, assign_t,
                   assign_start, finish_at, last_record>>

QueueNext == QEnqueue \/ QDequeue

QueueSpec == QueueInit /\ [][QueueNext]_vars

(***************************************************************************)
(* LedgerSpec: a storage created by create_storage and then filled by      *)
(* add_wait_time calls with every wait time and every outcome of realloc;  *)
(* dropped counts the calls that stored nothing.                           *)
(***************************************************************************)
LedgerInit ==
    /\ stdin = [lambda |-> [matched |-> FALSE, value |-> Double(0)],
                num_tellers |-> [matched |-> FALSE, value |-> 0]]
    /\ pc = "ledger"
    /\ Locals0

LCreate ==
    /\ pc = "ledger"
    /\ last_op = NoOp
    /\ storage' = create_storage
    /\ last_op' = [op |-> "create_storage", wait_time |-> 0, realloc_ok |-> TRUE,
                   before |-> storage, after |-> storage']
    /\ UNCHANGED <<stdin, pc, exit_status, lambda, num_tellers, bank_queue,
                   tellers, total_arrivals, current_minute, k, new_arrivals,
                   report, served_total, dropped, freed, last_assign, enq_log,
                   deq_log, assign_t, assign_start, finish_at, last_record>>

LRecord ==
    /\ pc = "ledger"
    /\ last_op # NoOp
    /\ storage.count + dropped < MaxRecords
    /\ \E wait_time \in 0..MaxValue, realloc_ok \in BOOLEAN :
          /\ storage' = add_wait_time(storage, wait_time, realloc_ok)
          /\ dropped' = IF storage'.count = storage.count
                        THEN dropped + 1 ELSE dropped
          /\ last_op' = [op |-> "add_wait_time", wait_time |-> wait_time,
                         realloc_ok |-> realloc_ok,
                         before |-> storage, after |-> storage']
    /\ UNCHANGED <<stdin, pc, exit_status, lambda, num_tellers, bank_queue,
                   tellers, total_arrivals, current_minute, k, new_arrivals,
                   report, served_total, freed, last_assign, enq_log, deq_log,
                   assign_t, assign_start, finish_at, last_record>>

LedgerNext == LCreate \/ LRecord

LedgerSpec == LedgerInit /\ [][LedgerNext]_vars

(***************************************************************************)
(* StatsSpec: the analysis functions called on every array of wait times   *)
(* up to MaxStatLen entries, as given (StatsCall) and after qsort          *)
(* (StatsSort), with every n up to the array's length.                     *)
(***************************************************************************)
RECURSIVE SeqsUpTo(_, _)
SeqsUpTo(S, len) ==
    IF len = 0 THEN {<<>>}
    ELSE LET shorter == SeqsUpTo(S, len - 1)
         IN  shorter \cup {Append(s, x) : s \in {t \in shorter : Len(t) = len - 1},
                                           x \in S}

StatsInit ==
    /\ stdin = [lambda |-> [matched |-> FALSE, value |-> Double(0)],
                num_tellers |-> [matched |-> FALSE, value |-> 0]]
    /\ pc = "stats"
    /\ exit_status = -1
    /\ lambda = Double(0)
    /\ num_tellers = 0
    /\ bank_queue = NoQueue
    /\ \E data \in SeqsUpTo(0..MaxStatValue, MaxStatLen) :
          \E n \in 0..Len(data) :
             storage = [wait_times |-> data, count |-> n, capacity |-> Len(data)]
    /\ tellers = <<>>
    /\ total_arrivals = 0
    /\ current_minute = 0
    /\ k = 0
    /\ new_arrivals = 0
    /\ report = NoReport
    /\ served_total = 0
    /\ dropped = 0
    /\ freed = {}
    /\ last_assign = <<>>
    /\ enq_log = <<>>
    /\ deq_log = <<>>
    /\ last_op = NoOp
    /\ assign_t = 1
    /\ assign_start = NoAssignStart
    /\ finish_at = <<>>
    /\ last_record = NoRecord

StatsSort ==
    /\ pc = "stats"
    /\ storage' = [storage EXCEPT !.wait_times = qsort(storage.wait_times, storage.count)]
    /\ last_op' = [op |-> "qsort", data |-> storage.wait_times, n |-> storage.count,
                   sorted |-> storage'.wait_times]
    /\ UNCHANGED <<stdin, pc, exit_status, lambda, num_tellers, bank_queue, tellers,
                   total_arrivals, current_minute, k, new_arrivals, report,
                   served_total, dropped, freed, last_assign, enq_log, deq_log, assign_t,
                   assign_start, finish_at, last_record>>

StatsCall ==
    /\ pc = "stats"
    /\ \E calloc_ok \in BOOLEAN :
          LET data == storage.wait_times
              n == storage.count
              mean == get_mean(data, n)
          IN  last_op' = [op |-> "stats", data |-> data, n |-> n,
                          calloc_ok |-> calloc_ok,
                          mean |-> mean,
                          median |-> get_median(data, n),
                          mode |-> get_mode(data, n, calloc_ok),
                          std_dev |-> get_std_dev(data, n, mean),
                          max_wait |-> get_max_wait(data, n)]
    /\ UNCHANGED <<stdin, pc, exit_status, lambda, num_tellers, bank_queue, storage,
                   tellers, total_arrivals, current_minute, k, new_arrivals, report,
                   served_total, dropped, freed, last_assign, enq_log, deq_log, assign_t,
                   assign_start, finish_at, last_record>>

StatsNext == StatsSort \/ StatsCall

StatsSpec == StatsInit /\ [][StatsNext]_vars

(***************************************************************************)
(* Properties.                                                             *)
(***************************************************************************)
InRun == pc \in {"tellers", "poisson", "enqueue", "assign", "report"}

\* C1: when run_simulation leaves the tick loop, total_arrivals minus the
\* ledger count equals the number of customers still in the queue.
C1_Conservation ==
    pc = "report" =>
        total_arrivals - storage.count = bank_queue.customer_count

\* C2: in every state of the run, the ledger length equals the number of
\* customers assigned to a teller so far.
C2_LedgerCountsServed ==
    InRun => storage.count = served_total

\* C3: the customers returned by dequeue are, in order, a prefix of the
\* customers enqueued, and the rest are still in the queue in that order: no
\* reordering, loss or duplication.
C3_FIFO ==
    pc = "queue" =>
        /\ Len(deq_log) <= Len(enq_log)
        /\ deq_log = SubSeq(enq_log, 1, Len(deq_log))
        /\ deq_log \o QueueContents(bank_queue) = enq_log

\* C3 witness: enqueues and dequeues interleaved, two different values
\* dequeued and two different values still waiting.
C3_Witness ==
    /\ pc = "queue"
    /\ Len(deq_log) = 2
    /\ deq_log[1] # deq_log[2]
    /\ Len(enq_log) = 4
    /\ enq_log[3] # enq_log[4]
    /\ last_op.op = "enqueue"

\* C4: every wait time computed in the assignment step is >= 0, and every
\* value in the ledger is in 0 .. SIMULATION_MINUTES-1.
C4_WaitTimeRange ==
    /\ \A i \in 1..Len(last_assign) : last_assign[i].wait_time >= 0
    /\ \A i \in 1..Len(storage.wait_times) :
          storage.wait_times[i] \in 0..(SIMULATION_MINUTES - 1)

\* C4 witness: at the end of the loop the ledger holds both ends of the range,
\* a wait of 0 and a wait of SIMULATION_MINUTES-1.
C4_Witness ==
    /\ pc = "report"
    /\ \E i, j \in 1..Len(storage.wait_times) :
          /\ storage.wait_times[i] = 0
          /\ storage.wait_times[j] = SIMULATION_MINUTES - 1

\* One step of a run, for C5: within a tick the phases run in the order
\* tellers, arrivals, assignment; a teller whose remaining time reaches 0 in the
\* first phase is free when the assignment phase starts, and a customer who
\* arrived in the tick in which they are served is recorded with wait time 0.
C5_PhaseStep ==
    /\ pc = "tellers" => pc' = "poisson" /\ current_minute' = current_minute
    /\ pc = "poisson" =>
          /\ pc' \in {"poisson", "enqueue"}
          /\ current_minute' = current_minute
          /\ tellers' = tellers
          /\ bank_queue' = bank_queue
    /\ pc = "enqueue" =>
          /\ pc' \in {"assign", "exit_failure"}
          /\ current_minute' = current_minute
          /\ tellers' = tellers
    /\ pc = "enqueue" /\ pc' = "assign" =>
          \A t \in freed' : tellers'[t] = FreeTeller
    /\ pc = "assign" =>
          /\ pc' \in {"assign", "tellers", "report"}
          /\ pc' = "assign" => current_minute' = current_minute
          /\ \A i \in 1..Len(last_assign') :
                /\ last_assign'[i].minute = current_minute
                /\ last_assign'[i].arrival_minute = current_minute
                      => last_assign'[i].wait_time = 0

\* C5: every step of every run is a C5_PhaseStep: the phases of a tick run in
\* the order tellers, arrivals, assignment, and a teller freed in the first
\* phase is free when the assignment phase of the same tick starts.
C5_PhaseOrder == [][C5_PhaseStep]_vars

\* C5 witness: after the first tick, a teller freed in a tick has served, in
\* that tick, a customer who arrived in that tick, with wait time 0.
C5_Witness ==
    /\ pc \in {"tellers", "report"}
    /\ \E i \in 1..Len(last_assign) :
          /\ last_assign[i].minute > 0
          /\ last_assign[i].teller \in freed
          /\ last_assign[i].arrival_minute = last_assign[i].minute
          /\ last_assign[i].wait_time = 0
          /\ last_assign[i].after.wait_times[last_assign[i].after.count] = 0

\* the configurations the validation is to reject
InvalidConfiguration ==
    \/ ~stdin.lambda.matched
    \/ DoubleLeq(stdin.lambda.value, Double(0))
    \/ ~stdin.num_tellers.matched
    \/ stdin.num_tellers.value <= 0

NothingCreated ==
    /\ bank_queue = NoQueue
    /\ storage = NoStorage
    /\ tellers = <<>>
    /\ current_minute = 0
    /\ total_arrivals = 0
    /\ ~report.printed

\* first half of C6: an invalid configuration never gets past main, and main
\* then returns non-zero with nothing of the simulation created
C6_RejectedBeforeRun ==
    /\ InvalidConfiguration => pc \in {"main", "rejected"}
    /\ pc = "rejected" => exit_status # 0 /\ NothingCreated

\* second half of C6: run_simulation is entered only with lambda > 0 and
\* num_tellers >= 1
C6_EnteredOnlyPositive ==
    pc \notin {"main", "rejected"} =>
        DoubleGt(lambda, Double(0)) /\ num_tellers >= 1

\* C6: an unparseable or non-positive lambda or num_tellers makes main return
\* non-zero before anything of the simulation exists, and run_simulation is
\* only ever entered with lambda > 0 and num_tellers >= 1.
C6_InvalidRejected == C6_RejectedBeforeRun /\ C6_EnteredOnlyPositive

\* C7: a record call whose resize fails leaves count, capacity and the
\* recorded values as they were and returns; the tick loop goes on as after
\* any other assignment.
C7_DropKeepsLedger ==
    /\ \A i \in 1..Len(last_assign) :
          last_assign[i].resize_failed =>
              /\ last_assign[i].before.count = last_assign[i].before.capacity
              /\ last_assign[i].after = last_assign[i].before
              /\ pc \in {"assign", "tellers", "report", "cleanup", "done"}
    /\ \A i \in 1..(Len(last_assign) - 1) :
          last_assign[i + 1].before = last_assign[i].after
    /\ pc \in {"assign", "tellers", "report"} /\ last_assign # <<>> =>
          storage = last_assign[Len(last_assign)].after
    /\ pc = "exit_failure" => last_assign = <<>>

\* C7 witness: a run in which a value was dropped has printed its report,
\* the ledger still holding what was recorded before the failed resize.
C7_Witness ==
    /\ pc = "cleanup"
    /\ dropped > 0
    /\ report.printed
    /\ report.served = INITIAL_STORAGE_CAPACITY
    /\ \E i \in 1..Len(last_assign) : last_assign[i].resize_failed

\* C8 (as stated): every run that has entered run_simulation goes through all
\* the ticks and stops only after its report.
C8_StopsOnlyAfterReport ==
    pc \notin {"main", "rejected"} => (pc = "done" \/ ENABLED Next)

\* One step of a run, for C8: the tick counter goes through 0 ..
\* SIMULATION_MINUTES-1 in increasing order, each tick once through its three
\* phases, then the report; a failed allocation exits the process instead.
Stopped == pc \in {"done", "exit_failure", "rejected"}

C8_TickStep ==
    /\ pc = "run_simulation" => pc' \in {"tellers", "exit_failure"}
    /\ pc' = "tellers" /\ pc = "run_simulation" => current_minute' = 0
    /\ pc \in {"tellers", "poisson", "enqueue", "assign"} =>
          current_minute \in 0..(SIMULATION_MINUTES - 1)
    /\ pc = "tellers" => pc' = "poisson" /\ current_minute' = current_minute
    /\ pc = "poisson" =>
          pc' \in {"poisson", "enqueue"} /\ current_minute' = current_minute
    /\ pc = "enqueue" =>
          pc' \in {"assign", "exit_failure"} /\ current_minute' = current_minute
    /\ pc = "assign" /\ assign_t < num_tellers =>
          /\ pc' = "assign"
          /\ assign_t' = assign_t + 1
          /\ current_minute' = current_minute
    /\ pc = "assign" /\ assign_t = num_tellers =>
          /\ current_minute' = current_minute + 1
          /\ pc' = IF current_minute = SIMULATION_MINUTES - 1
                   THEN "report" ELSE "tellers"
    /\ pc' = "assign" /\ pc # "assign" => assign_t' = 1
    /\ pc = "report" =>
          pc' = "cleanup" /\ current_minute' = SIMULATION_MINUTES
    /\ pc = "cleanup" => pc' = "done" /\ exit_status' = 0
    /\ ~Stopped

\* The number of steps a run can still take is bounded by Rank: a tick takes
\* at most TickBudget steps (one for the tellers, up to MaxArrivals+1 draws,
\* one for the enqueue loop, one pass per teller).
TickBudget == 1 + (MaxArrivals + 1) + 1 + MaxTellers

Rank ==
    LET ticks_left == SIMULATION_MINUTES - 1 - current_minute
    IN  CASE pc = "main" -> SIMULATION_MINUTES * TickBudget + 4
          [] pc = "run_simulation" -> SIMULATION_MINUTES * TickBudget + 3
          [] pc = "tellers" -> ticks_left * TickBudget + TickBudget + 2
          [] pc = "poisson" ->
                ticks_left * TickBudget + (MaxArrivals + 1 - k) + 1 + MaxTellers + 2
          [] pc = "enqueue" -> ticks_left * TickBudget + 1 + MaxTellers + 2
          [] pc = "assign" ->
                ticks_left * TickBudget + (num_tellers - assign_t + 1) + 2
          [] pc = "report" -> 2
          [] pc = "cleanup" -> 1
          [] OTHER -> 0

\* C8 (amended): every run terminates; unless a failed allocation exits the
\* process, the tick counter takes the values 0 .. SIMULATION_MINUTES-1 in
\* increasing order, each tick going once through its three phases, and the
\* run then reports and returns; no tick is skipped or repeated.  Every step
\* follows the tick order and lowers Rank, and the run never stops anywhere
\* but in one of its final states.
C8_Terminates ==
    /\ [][C8_TickStep /\ Rank' < Rank]_vars
    /\ [](Rank >= 0 /\ (Stopped \/ ENABLED Next))
    /\ [](pc = "exit_failure" => exit_status = 1 /\ ~report.printed)
    /\ [](pc = "done" => exit_status = 0 /\ report.printed
                            /\ current_minute = SIMULATION_MINUTES)

\* C8, as liveness: under the fairness of FairSpec, the run reaches one of its
\* final states
C8_EventuallyStopped == <>Stopped

\* C8 witness: a run has gone through every tick and returned after its report.
C8_Witness ==
    /\ pc = "done"
    /\ current_minute = SIMULATION_MINUTES
    /\ report.printed
    /\ report.arrived > 0

\* each analysis function called with n = 0 returns 0
ZeroForNoData(data) ==
    /\ get_mean(data, 0) = ZeroDouble
    /\ get_median(data, 0) = ZeroDouble
    /\ \A calloc_ok \in BOOLEAN : get_mode(data, 0, calloc_ok) = 0
    /\ get_std_dev(data, 0, get_mean(data, 0)) = ZeroDouble
    /\ get_max_wait(data, 0) = 0

\* C9: the report has the numeric block exactly when served > 0; with nothing
\* served no statistic is computed; and each analysis function called with
\* n = 0 returns 0 whatever the array holds, also when it holds nothing.
C9_EmptyLedger ==
    /\ report.printed =>
          /\ report.has_stats <=> report.served > 0
          /\ report.served = 0 =>
                /\ report.mean = ZeroDouble
                /\ report.median = ZeroDouble
                /\ report.mode = 0
                /\ report.std_dev = ZeroDouble
                /\ report.max_wait = 0
    /\ pc = "cleanup" => report.served = storage.count
    /\ ZeroForNoData(storage.wait_times)
    /\ ZeroForNoData(<<>>)

\* C9 witness: a run with a valid lambda in which nobody arrived, so nobody
\* was served, has printed a report without the numeric block.
C9_Witness ==
    /\ pc = "cleanup"
    /\ ~lambda.nan
    /\ report.printed
    /\ report.served = 0
    /\ ~report.has_stats

\* m occurs among the first n entries of data, no value occurs more often, and
\* no smaller value occurs as often
IsSmallestMode(data, n, m) ==
    /\ \E i \in 1..n : data[i] = m
    /\ \A v \in 0..MaxStatValue : Frequency(data, n, v) <= Frequency(data, n, m)
    /\ \A v \in 0..MaxStatValue :
          Frequency(data, n, v) = Frequency(data, n, m) => m <= v

\* C10 (as stated): for every non-empty array of non-negative wait times,
\* get_mode returns a value of maximal frequency, the smallest such value.
C10_ModeSmallestMostFrequent ==
    last_op.op = "stats" /\ last_op.n > 0 =>
        IsSmallestMode(last_op.data, last_op.n, last_op.mode)

\* C10 (amended): the same, provided calloc returns the frequency array;
\* when it does not, get_mode returns -1.
C10_ModeUnlessCallocFails ==
    last_op.op = "stats" /\ last_op.n > 0 =>
        IF last_op.calloc_ok
        THEN IsSmallestMode(last_op.data, last_op.n, last_op.mode)
        ELSE last_op.mode = -1

\* C10 witness: [1,1,2,2] gives 1.
C10_Witness ==
    /\ last_op.op = "stats"
    /\ last_op.calloc_ok
    /\ last_op.n = 4
    /\ last_op.data = <<1, 1, 2, 2>>
    /\ last_op.mode = 1

\* C11: in every state of the run, between the phases of a tick too, a teller
\* that is not busy has remaining_service_time = 0.
C11_IdleTellerHasNoTime ==
    InRun =>
        \A t \in 1..num_tellers :
            tellers[t].is_busy = 0 => tellers[t].remaining_service_time = 0

\* C11 witness: in the middle of a tick, after the countdown, one teller has
\* just been freed and another is still busy.
C11_Witness ==
    /\ pc = "enqueue"
    /\ \E t, u \in 1..num_tellers :
          /\ t \in freed
          /\ tellers[t] = FreeTeller
          /\ tellers[u].is_busy = 1
          /\ tellers[u].remaining_service_time > 0

\* the state after the last pass of step 3 of a tick
AssignPhaseEnded ==
    pc \in {"tellers", "report"} /\ assign_start # NoAssignStart

\* the tellers that were idle when step 3 of the tick started
IdleAtStart == {t \in 1..num_tellers : assign_start.tellers[t].is_busy = 0}

Min(a, b) == IF a <= b THEN a ELSE b

\* C12: at the end of every tick's assignment phase it is never the case that
\* the queue is non-empty while some teller is idle, and the number of customers
\* assigned in the tick is min(idle tellers after the free phase, queue length
\* after the arrival phase).
C12_WorkConserving ==
    AssignPhaseEnded =>
        /\ QueueContents(bank_queue) # <<>> =>
               \A t \in 1..num_tellers : tellers[t].is_busy = 1
        /\ ~is_empty(bank_queue) =>
               \A t \in 1..num_tellers : tellers[t].is_busy = 1
        /\ Len(last_assign)
               = Min(Cardinality(IdleAtStart), Len(assign_start.queue))

\* C12 witness: a tick that started its assignment phase with one idle teller
\* of two and two customers waiting has assigned one and left one waiting.
C12_Witness ==
    /\ AssignPhaseEnded
    /\ num_tellers = 2
    /\ Len(last_assign) = 1
    /\ Cardinality(IdleAtStart) = 1
    /\ Len(assign_start.queue) = 2
    /\ QueueContents(bank_queue) # <<>>

\* the i-th lowest element of a set of teller indices
NthLowest(S, i) == CHOOSE t \in S : Cardinality({u \in S : u < t}) = i - 1

\* C13: the customers assigned in a tick go to the lowest-indexed idle tellers,
\* the i-th customer dequeued (in queue order) to the i-th lowest-indexed idle
\* teller; the tellers, the queue and the wait times computed at the end of
\* the phase are a function of the tellers and the queue at its start and of
\* the sampled service times.
C13_AscendingTellerIndex ==
    AssignPhaseEnded =>
        LET n == Len(last_assign)
            taken == {NthLowest(IdleAtStart, i) : i \in 1..n}
        IN  /\ n = Min(Cardinality(IdleAtStart), Len(assign_start.queue))
            /\ \A i \in 1..n :
                  /\ last_assign[i].teller = NthLowest(IdleAtStart, i)
                  /\ last_assign[i].arrival_minute = assign_start.queue[i]
                  /\ last_assign[i].minute = current_minute - 1
                  /\ last_assign[i].wait_time
                        = current_minute - 1 - assign_start.queue[i]
                  /\ tellers[NthLowest(IdleAtStart, i)]
                        = [is_busy |-> 1,
                           remaining_service_time |-> last_assign[i].service_time]
            /\ \A t \in (1..num_tellers) \ taken :
                  tellers[t] = assign_start.tellers[t]
            /\ QueueContents(bank_queue)
                  = SubSeq(assign_start.queue, n + 1, Len(assign_start.queue))

\* C13 witness: two customers who arrived in different ticks were assigned in
\* one tick, the earlier to teller 1 and the later to teller 2, with different
\* service times.
C13_Witness ==
    /\ AssignPhaseEnded
    /\ Len(last_assign) = 2
    /\ last_assign[1].teller = 1
    /\ last_assign[2].teller = 2
    /\ last_assign[1].arrival_minute < last_assign[2].arrival_minute
    /\ last_assign[1].service_time # last_assign[2].service_time

\* C14 (as stated): a customer gets wait time 0 only if a teller was freed, its
\* remaining time reaching 0 in the decrement phase, in the very tick in which
\* the customer arrived.
C14_ZeroWaitNeedsFreedTeller ==
    \A i \in 1..Len(last_assign) :
        last_assign[i].wait_time = 0 =>
            /\ last_assign[i].arrival_minute = last_assign[i].minute
            /\ freed # {}

\* C14 (amended): a customer gets wait time 0 only if they are assigned in the
\* tick in which they arrived, to a teller that is idle when the assignment
\* phase of that tick starts: one freed in that tick's decrement phase or one
\* that was idle already (every teller starts idle).
C14_ZeroWaitNeedsIdleTeller ==
    /\ \A i \in 1..Len(last_assign) :
          last_assign[i].wait_time = 0 =>
              /\ last_assign[i].arrival_minute = last_assign[i].minute
              /\ last_assign[i].teller \in IdleAtStart
    /\ pc = "assign" => freed \subseteq IdleAtStart

\* C14 witness: after the first tick, a customer was recorded with wait time 0
\* in a tick in which no teller was freed, by a teller idle since before.
C14_Witness ==
    /\ AssignPhaseEnded
    /\ freed = {}
    /\ \E i \in 1..Len(last_assign) :
          /\ last_assign[i].minute > 0
          /\ last_assign[i].wait_time = 0
          /\ ~last_assign[i].resize_failed
          /\ last_assign[i].teller \in IdleAtStart

\* C15 (as stated): the ledger is in the order in which service is completed:
\* of any two customers in it, the one recorded earlier finishes service no
\* later than the one recorded later.  Holding after every record, this is:
\* the customer recorded last finishes no earlier than any recorded before.
C15_CompletionOrder ==
    InRun /\ last_record # NoRecord =>
        last_record.finish >= last_record.latest_finish

\* C15 (amended): the ledger is in the order in which service starts: of any
\* two customers in it, the one recorded earlier is assigned to a teller no
\* later, and arrived no later, than the one recorded later.
C15_ServiceStartOrder ==
    InRun /\ last_record # NoRecord =>
        /\ last_record.minute >= last_record.latest_minute
        /\ last_record.arrival_minute >= last_record.latest_arrival
        /\ last_record.arrival_minute <= last_record.minute
        /\ storage.count > 0

\* C15 witness: the customer recorded last finishes service before a customer
\* recorded earlier, and was assigned and had arrived no earlier.
C15_Witness ==
    /\ InRun
    /\ storage.count >= 2
    /\ last_record.finish < last_record.latest_finish
    /\ last_record.minute = last_record.latest_minute
    /\ last_record.arrival_minute = last_record.latest_arrival

\* C16: in every state of the run the arrival ticks of the queued customers,
\* read front to rear, never decrease, and none is later than the current tick.
C16_QueueMonotone ==
    InRun \/ pc = "exit_failure" =>
        LET waiting == QueueContents(bank_queue)
        IN  /\ Len(waiting) = bank_queue.customer_count
            /\ \A i \in 1..Len(waiting) :
                  /\ waiting[i] >= 0
                  /\ waiting[i] <= current_minute
            /\ \A i \in 1..(Len(waiting) - 1) : waiting[i] <= waiting[i + 1]

\* C16 witness: when the assignment phase of a tick starts, the queue holds a
\* customer of an earlier tick in front of a customer of this tick.
C16_Witness ==
    /\ pc = "assign"
    /\ assign_t = 1
    /\ LET waiting == QueueContents(bank_queue)
       IN  /\ Len(waiting) >= 2
           /\ waiting[1] < waiting[Len(waiting)]
           /\ waiting[Len(waiting)] = current_minute

\* a tick boundary: before step 1 of a tick, or after the last tick
TickBoundary == pc \in {"tellers", "report"}

\* For C17, in every state: a customer is assigned with a service time d in
\* MIN_SERVICE_TIME .. MAX_SERVICE_TIME and the teller is busy with d minutes
\* left at the end of that tick; at a tick boundary a busy teller has between
\* 1 and MAX_SERVICE_TIME minutes left, as many as there are ticks up to the
\* tick t+d written in finish_at at the assignment, and a teller is busy
\* exactly while that tick is still to come; a teller freed in a tick can be
\* assigned in that tick.
C17_LifecycleState ==
    /\ \A i \in 1..Len(last_assign) :
          /\ last_assign[i].service_time \in MIN_SERVICE_TIME..MAX_SERVICE_TIME
          /\ AssignPhaseEnded =>
                tellers[last_assign[i].teller]
                    = [is_busy |-> 1,
                       remaining_service_time |-> last_assign[i].service_time]
          /\ InRun =>
                finish_at[last_assign[i].teller]
                    = last_assign[i].minute + last_assign[i].service_time
    /\ TickBoundary =>
          \A t \in 1..num_tellers :
              /\ tellers[t].is_busy = 1 <=> finish_at[t] # NoFinish
              /\ tellers[t].is_busy = 1 =>
                    /\ tellers[t].remaining_service_time \in 1..MAX_SERVICE_TIME
                    /\ tellers[t].remaining_service_time
                          = finish_at[t] - current_minute + 1
    /\ pc = "assign" =>
          \A t \in freed :
              assign_t <= t =>
                  /\ tellers[t] = FreeTeller
                  /\ CanAssign(tellers[t], bank_queue) <=> ~is_empty(bank_queue)

\* For C17, the decrement phase: a busy teller becomes idle exactly in the
\* tick t+d written in finish_at, and stays busy with one minute less before.
C17_DecrementStep ==
    pc = "tellers" =>
        \A t \in 1..num_tellers :
            /\ t \in freed' <=> finish_at[t] = current_minute
            /\ t \in freed' => tellers'[t] = FreeTeller
            /\ tellers[t].is_busy = 1 /\ t \notin freed' =>
                  /\ finish_at[t] > current_minute
                  /\ tellers'[t]
                        = [is_busy |-> 1,
                           remaining_service_time |->
                               tellers[t].remaining_service_time - 1]
            /\ tellers[t].is_busy = 0 => tellers'[t] = tellers[t]

\* For C17, the example: with one teller, a teller freed in tick 2 was assigned
\* in tick 0 with duration 2 (the only tick and duration that end in tick 2),
\* and a customer who is first in the queue and arrived in tick 2 is served in
\* tick 2 with wait time 0.
C17_Example ==
    /\ num_tellers = 1 /\ TickBoundary /\ current_minute = 1
          /\ finish_at = <<2>> =>
          /\ last_assign # <<>>
          /\ last_assign[1].minute = 0
          /\ last_assign[1].service_time = 2
    /\ num_tellers = 1 /\ AssignPhaseEnded /\ current_minute = 3
          /\ freed = {1} /\ assign_start.queue # <<>> =>
          /\ last_assign # <<>>
          /\ last_assign[1].teller = 1
          /\ last_assign[1].minute = 2
          /\ assign_start.queue[1] = 2 => last_assign[1].wait_time = 0

\* C17: a teller assigned in tick t with sampled duration d in
\* MIN_SERVICE_TIME .. MAX_SERVICE_TIME is busy at the end of ticks t .. t+d-1,
\* becomes idle in the decrement phase of tick t+d and can be assigned again
\* in that tick; at a tick boundary a busy teller has 1 .. MAX_SERVICE_TIME
\* minutes left; with one teller and duration 2, a customer served at tick 0
\* leaves the teller free for a customer arriving at tick 2, who waits 0.
C17_TellerLifecycle ==
    /\ [](C17_LifecycleState /\ C17_Example)
    /\ [][C17_DecrementStep]_vars

\* C17 witness: one teller, freed in tick 2, has served in tick 2 a customer
\* who arrived in tick 2, with wait time 0.
C17_Witness ==
    /\ num_tellers = 1
    /\ AssignPhaseEnded
    /\ current_minute = 3
    /\ freed = {1}
    /\ assign_start.queue = <<2>>
    /\ Len(last_assign) = 1
    /\ last_assign[1].wait_time = 0
    /\ tellers[1].is_busy = 1

\* the first n entries of data are in ascending order
IsAscending(data, n) == \A i \in 1..(n - 1) : data[i] <= data[i + 1]

\* the rational q equals num/den
RationalIs(q, num, den) == q.den > 0 /\ q.num * den = num * q.den

\* C18: for every non-empty ascending array of n wait times, get_median
\* returns the central element when n is odd (the p-th of n = 2p-1) and the
\* average of the two central elements when n is even (the p-th and (p+1)-th
\* of n = 2p), and the result lies between the smallest and the largest entry.
C18_Median ==
    last_op.op = "stats" /\ last_op.n > 0
            /\ IsAscending(last_op.data, last_op.n) =>
        /\ \A p \in 1..last_op.n :
              /\ last_op.n = 2 * p - 1 =>
                    RationalIs(last_op.median, last_op.data[p], 1)
              /\ last_op.n = 2 * p =>
                    RationalIs(last_op.median,
                               last_op.data[p] + last_op.data[p + 1], 2)
        /\ \E i, j \in 1..last_op.n :
              /\ last_op.data[i] * last_op.median.den <= last_op.median.num
              /\ last_op.median.num <= last_op.data[j] * last_op.median.den

\* C18 witness: the median of <<0, 1, 2, 3>> is 3/2.
C18_Witness ==
    /\ last_op.op = "stats"
    /\ last_op.n = 4
    /\ last_op.data = <<0, 1, 2, 3>>
    /\ last_op.median = Rational(3, 2)

\* C19: the ledger starts with count 0 and capacity INITIAL_STORAGE_CAPACITY;
\* always 0 <= count <= capacity and capacity is INITIAL_STORAGE_CAPACITY times
\* a power of two; a record call changes capacity only when count = capacity,
\* and then doubles it; a record that stores appends the value at the end,
\* adds 1 to count and leaves the earlier entries unchanged.
C19_LedgerGrowth ==
    /\ last_op.op = "create_storage" =>
          /\ last_op.after.count = 0
          /\ last_op.after.capacity = INITIAL_STORAGE_CAPACITY
          /\ last_op.after.wait_times = <<>>
          /\ storage = last_op.after
    /\ pc = "ledger" /\ last_op # NoOp =>
          /\ 0 <= storage.count
          /\ storage.count <= storage.capacity
          /\ Len(storage.wait_times) = storage.count
          /\ \E i \in 0..MaxRecords :
                storage.capacity = INITIAL_STORAGE_CAPACITY * 2 ^ i
    /\ last_op.op = "add_wait_time" =>
          /\ storage = last_op.after
          /\ last_op.after.capacity # last_op.before.capacity =>
                /\ last_op.before.count = last_op.before.capacity
                /\ last_op.after.capacity = 2 * last_op.before.capacity
          /\ last_op.realloc_ok \/ last_op.before.count < last_op.before.capacity =>
                /\ last_op.after.count = last_op.before.count + 1
                /\ Len(last_op.after.wait_times) = last_op.after.count
                /\ last_op.after.wait_times[last_op.after.count]
                      = last_op.wait_time
                /\ \A i \in 1..last_op.before.count :
                      last_op.after.wait_times[i] = last_op.before.wait_times[i]

\* C19 witness: a record into a full ledger that had already doubled once has
\* doubled it again and appended the value.
C19_Witness ==
    /\ pc = "ledger"
    /\ last_op.op = "add_wait_time"
    /\ last_op.before.capacity = 2 * INITIAL_STORAGE_CAPACITY
    /\ last_op.before.count = last_op.before.capacity
    /\ storage.capacity = 4 * INITIAL_STORAGE_CAPACITY
    /\ storage.count = last_op.before.count + 1
    /\ dropped > 0

\* C20: dequeue on an empty queue returns NULL and leaves front, rear and
\* customer_count as they were, the count staying 0; dequeue on a non-empty
\* queue returns the front customer, removes exactly that customer and lowers
\* the count by exactly 1.
C20_Dequeue ==
    last_op.op = "dequeue" =>
        IF QueueContents(last_op.before) = <<>>
        THEN /\ last_op.ret = NULL
             /\ last_op.after = last_op.before
             /\ last_op.after.front = NULL
             /\ last_op.after.rear = NULL
             /\ last_op.after.customer_count = 0
             /\ bank_queue = last_op.before
        ELSE /\ last_op.ret # NULL
             /\ last_op.ret = last_op.before.front
             /\ deq_log # <<>>
             /\ deq_log[Len(deq_log)] = Head(QueueContents(last_op.before))
             /\ QueueContents(last_op.after)
                   = Tail(QueueContents(last_op.before))
             /\ QueueContents(bank_queue) = Tail(QueueContents(last_op.before))
             /\ last_op.after.customer_count
                   = last_op.before.customer_count - 1
             /\ bank_queue.customer_count = last_op.before.customer_count - 1

\* C20 witness: a queue that has held customers and was emptied again has
\* answered a further dequeue with NULL.
C20_Witness ==
    /\ pc = "queue"
    /\ last_op.op = "dequeue"
    /\ last_op.ret = NULL
    /\ Len(deq_log) >= 2
    /\ Len(deq_log) = Len(enq_log)
    /\ bank_queue = last_op.before

\* the addresses of the customers reachable from p through next, p first
RECURSIVE NodesFrom(_, _, _)
NodesFrom(heap, p, fuel) ==
    IF p = NULL \/ fuel = 0 \/ p \notin DOMAIN heap THEN <<>>
    ELSE <<p>> \o NodesFrom(heap, heap[p].next, fuel - 1)

\* C21: after any sequence of enqueue and dequeue calls on a queue made by
\* create_queue, customer_count is the number of customers reachable from
\* front and is never negative, is_empty holds exactly when customer_count is
\* 0, front is NULL exactly when rear is NULL, and the rear of a non-empty
\* queue is the last customer reachable from front.
C21_QueueStructure ==
    pc = "queue" =>
        LET nodes == NodesFrom(bank_queue.heap, bank_queue.front, MaxNodes + 1)
        IN  /\ bank_queue.customer_count = Len(nodes)
            /\ bank_queue.customer_count >= 0
            /\ bank_queue.customer_count = Len(enq_log) - Len(deq_log)
            /\ is_empty(bank_queue) <=> bank_queue.customer_count = 0
            /\ bank_queue.front = NULL <=> bank_queue.rear = NULL
            /\ bank_queue.front # NULL => bank_queue.front \in DOMAIN bank_queue.heap
            /\ nodes # <<>> =>
                  /\ bank_queue.rear = nodes[Len(nodes)]
                  /\ bank_queue.heap[bank_queue.rear].next = NULL
            /\ \A i, j \in 1..Len(nodes) : nodes[i] = nodes[j] => i = j

\* C21 witness: after four enqueues and two dequeues, the last call an
\* enqueue, the queue holds two customers, rear being the second.
C21_Witness ==
    /\ pc = "queue"
    /\ last_op.op = "enqueue"
    /\ Len(deq_log) = 2
    /\ Len(enq_log) = 4
    /\ bank_queue.customer_count = 2
    /\ bank_queue.front # bank_queue.rear
    /\ bank_queue.heap[bank_queue.front].next = bank_queue.rear
    /\ last_op.before.customer_count = 1

====
